---- MODULE Spec2Model ----
(***************************************************************************)
(* Model of pw_snapcast_link.py: the default PipeWire audio sink's monitor *)
(* ports are linked to the Snapcast sink for as long as the process runs.  *)
(*                                                                         *)
(* Six specifications share the variables:                                 *)
(*   Spec       the lifecycle of _main, with signals and the audio server  *)
(*   SpecLive   Spec with weak fairness on the steps of the main thread    *)
(*   SpecLinks  update_links called repeatedly against a quiet graph       *)
(*   SpecFind   find_default_audio_sink applied to bounded graph dumps     *)
(*   SpecHandle the return-code classification of update_links             *)
(*   SpecMulti  several instances of the script against one server         *)
(***************************************************************************)
EXTENDS Integers, Sequences, FiniteSets, TLC

VARIABLES
    \* ---- the audio server (external) ----
    serverUp,           \* the PipeWire daemon answers
    nodes,              \* device nodes present in the graph
    links,              \* set of <<output port, input port>> edges
    dump,               \* what pw-dump prints: a sequence of objects
    \* ---- the process ----
    pc,                 \* position in _main
    chan,               \* index into the channel loop of update_links
    running,            \* a subprocess.run child is in flight
    handlers,           \* signal -> "default" | "raise"
    default_sink_name,  \* local of _main
    pending,            \* an exception is propagating through the finally block
    exit_status,        \* "running" | "exit_0" | "exit_1" | "killed_SIGINT" | "killed_SIGTERM"
    requests,           \* argv of every subprocess spawned, in order
    results,            \* how each spawned subprocess ended, in the same order
    \* ---- history ----
    signals,            \* number of signals delivered so far
    sigInWait,          \* a signal was delivered while _main was in the sleep loop
    sleeps,             \* number of time.sleep(60) expiries
    calls,              \* SpecLinks: completed update_links calls
    found,              \* SpecFind: outcome of find_default_audio_sink
    handled,            \* SpecHandle: classified pw-link results
    inst,               \* SpecMulti: the process state of each instance
    creator,            \* SpecMulti: edge -> instance whose request created it
    taken               \* SpecMulti: edges removed by another instance's request

auxVars == <<handled, inst, creator, taken>>

vars == <<serverUp, nodes, links, dump, pc, chan, running, handlers,
          default_sink_name, pending, exit_status, requests, results,
          signals, sigInWait, sleeps, calls, found, auxVars>>

serverVars  == <<serverUp, nodes, links, dump>>
processVars == <<pc, chan, running, handlers, default_sink_name, pending,
                 exit_status, requests, results>>

----------------------------------------------------------------------------
\* Bounds

MaxSignals == 2     \* signals delivered in one run
MaxSleeps  == 2     \* sleep expiries counted
MaxCalls   == 3     \* update_links calls in SpecLinks
MaxObjects == 3     \* objects in a graph dump (SpecFind)
MaxEntries == 2     \* metadata entries in one object (SpecFind)

----------------------------------------------------------------------------
\* Program constants

SNAPCAST_SINK_NODE == "Snapcast"

CHANNELS == <<"FL", "FR">>

Devices == {"hdmi", "usb"}

Signals == {"SIGINT", "SIGTERM"}

METADATA_TYPE == "PipeWire:Interface:Metadata"

NODE_TYPE == "PipeWire:Interface:Node"

SINK_KEY == "default.audio.sink"

LINK_EXISTS == "failed to link ports: File exists\n"

LINK_NOENT == "failed to link ports: No such file or directory\n"

UNLINK_NOENT == "failed to unlink ports: No such file or directory\n"

HOST_DOWN == "failed to connect: Host is down\n"

----------------------------------------------------------------------------
\* Port names, as update_links formats them

MonitorPort(node, channel) == node \o ":monitor_" \o channel

PlaybackPort(node, channel) == node \o ":playback_" \o channel

\* The ports the server knows: every present device has monitor and playback
\* ports for both channels.
PortsOf(ns) ==
    UNION { {MonitorPort(n, CHANNELS[i]), PlaybackPort(n, CHANNELS[i])} :
            n \in ns, i \in 1..Len(CHANNELS) }

AllNodes == Devices \cup {SNAPCAST_SINK_NODE}

\* Every edge from a device's monitor port to the Snapcast playback port
ChannelEdge(node, channel) ==
    <<MonitorPort(node, channel), PlaybackPort(SNAPCAST_SINK_NODE, channel)>>

AllEdges == { ChannelEdge(n, CHANNELS[i]) : n \in Devices, i \in 1..Len(CHANNELS) }

\* An edge exists only between ports of present nodes
EdgesAmong(ns) == { e \in AllEdges : {e[1], e[2]} \subseteq PortsOf(ns) }

----------------------------------------------------------------------------
\* The pw-link command, as the external interface describes it: exit status 0
\* and the edge created/removed, or a non-zero status with an error text.

PwLink(argv, up, ns, ls) ==
    LET disconnect == argv[2] = "-d"
        out  == argv[Len(argv) - 1]
        in   == argv[Len(argv)]
        edge == <<out, in>>
    IN  IF ~up
          THEN [returncode |-> 1, stderr |-> HOST_DOWN, links |-> ls]
        ELSE IF disconnect
          THEN IF edge \in ls
                 THEN [returncode |-> 0, stderr |-> "", links |-> ls \ {edge}]
                 ELSE [returncode |-> 1, stderr |-> UNLINK_NOENT, links |-> ls]
        ELSE IF ~({out, in} \subseteq PortsOf(ns))
          THEN [returncode |-> 1, stderr |-> LINK_NOENT, links |-> ls]
        ELSE IF edge \in ls
          THEN [returncode |-> 1, stderr |-> LINK_EXISTS, links |-> ls]
        ELSE [returncode |-> 0, stderr |-> "", links |-> ls \cup {edge}]

----------------------------------------------------------------------------
\* update_links

\* Mutant: the channel variable is not used for the port names
LinkArgvFirstChannel(audio_sink_node, snapcast_sink_node, disconnect, channel) ==
    (IF disconnect THEN <<"pw-link", "-d">> ELSE <<"pw-link">>)
        \o <<MonitorPort(audio_sink_node, CHANNELS[1]),
             PlaybackPort(snapcast_sink_node, CHANNELS[1])>>

\* Mutant: the playback port is formatted from the wrong node name
LinkArgvSourcePlayback(audio_sink_node, snapcast_sink_node, disconnect, channel) ==
    (IF disconnect THEN <<"pw-link", "-d">> ELSE <<"pw-link">>)
        \o <<MonitorPort(audio_sink_node, channel),
             PlaybackPort(audio_sink_node, channel)>>

\* link_cmd plus the two port names of one channel
LinkArgv(audio_sink_node, snapcast_sink_node, disconnect, channel) ==
    (IF disconnect THEN <<"pw-link", "-d">> ELSE <<"pw-link">>)
        \o <<MonitorPort(audio_sink_node, channel),
             PlaybackPort(snapcast_sink_node, channel)>>

\* Mutant: the benign message of a disconnect is compared with the link text
HandleWrongUnlinkText(disconnect, returncode, stderr) ==
    IF returncode = 0 THEN "ok"
    ELSE IF ~disconnect /\ stderr = LINK_EXISTS THEN "already"
    ELSE IF disconnect /\ stderr = LINK_NOENT THEN "already"
    ELSE "raise"

\* Mutant: every non-zero status is logged as a warning and the loop goes on
HandleSwallow(disconnect, returncode, stderr) ==
    IF returncode = 0 THEN "ok" ELSE "already"

\* Mutant: either benign text is accepted whatever the direction
HandleAnyDirection(disconnect, returncode, stderr) ==
    IF returncode = 0 THEN "ok"
    ELSE IF stderr = LINK_EXISTS THEN "already"
    ELSE IF stderr = UNLINK_NOENT THEN "already"
    ELSE "raise"

\* What the loop body does with the ended process:
\*   "ok"      returncode 0
\*   "already" the benign message for the requested direction; a warning
\*   "raise"   check_returncode() raises CalledProcessError
Handle(disconnect, returncode, stderr) ==
    IF returncode = 0 THEN "ok"
    ELSE IF ~disconnect /\ stderr = LINK_EXISTS THEN "already"
    ELSE IF disconnect /\ stderr = UNLINK_NOENT THEN "already"
    ELSE "raise"

\* The whole call, from channel index i on: the requests issued, how each
\* ended, whether the call raised, and the graph afterward.
RECURSIVE UpdateLinksFrom(_, _, _, _, _, _, _)
UpdateLinksFrom(i, audio_sink_node, snapcast_sink_node, disconnect, up, ns, ls) ==
    IF i > Len(CHANNELS)
      THEN [argvs |-> <<>>, procs |-> <<>>, outcomes |-> <<>>, raised |-> FALSE,
            links |-> ls]
      ELSE
        LET argv == LinkArgv(audio_sink_node, snapcast_sink_node, disconnect, CHANNELS[i])
            ended_proc == PwLink(argv, up, ns, ls)
            outcome == Handle(disconnect, ended_proc.returncode, ended_proc.stderr)
            proc == [returncode |-> ended_proc.returncode, stderr |-> ended_proc.stderr]
        IN  IF outcome = "raise"
              THEN [argvs |-> <<argv>>, procs |-> <<proc>>, outcomes |-> <<outcome>>,
                    raised |-> TRUE, links |-> ended_proc.links]
              ELSE
                LET rest == UpdateLinksFrom(i + 1, audio_sink_node, snapcast_sink_node,
                                            disconnect, up, ns, ended_proc.links)
                IN  [argvs |-> <<argv>> \o rest.argvs,
                     procs |-> <<proc>> \o rest.procs,
                     outcomes |-> <<outcome>> \o rest.outcomes,
                     raised |-> rest.raised,
                     links |-> rest.links]

update_links(audio_sink_node, snapcast_sink_node, disconnect, up, ns, ls) ==
    UpdateLinksFrom(1, audio_sink_node, snapcast_sink_node, disconnect, up, ns, ls)

----------------------------------------------------------------------------
\* find_default_audio_sink

\* Objects of a graph dump.  props is a function from property names to
\* values; a Metadata object carries a sequence of metadata entries.
MetadataObject(props, metadata) ==
    [type |-> METADATA_TYPE, props |-> props, metadata |-> metadata]

NodeObject(name) ==
    [type |-> NODE_TYPE, props |-> ("node.name" :> name), metadata |-> <<>>]

Named(name) == ("metadata.name" :> name) @@ ("object.serial" :> "1")

Unnamed == ("object.serial" :> "1")

Entry(key, name) == [key |-> key, value |-> [name |-> name]]

\* The outcome of the function: a returned name, or the exception raised.
\* KeyError is a subclass of LookupError in Python.
Returned(name) == [exc |-> "none", value |-> name]

Raised(kind) == [exc |-> kind, value |-> ""]

IsLookupError(r) == r.exc \in {"LookupError", "KeyError"}

\* The list comprehension of lines 80-85 subscripts props["metadata.name"] of
\* every Metadata object, so one without that property raises KeyError before
\* any count is taken.
find_default_audio_sink(pipewire_dump) ==
    LET keyError ==
            \E i \in 1..Len(pipewire_dump) :
                /\ pipewire_dump[i].type = METADATA_TYPE
                /\ "metadata.name" \notin DOMAIN pipewire_dump[i].props
        pipewire_defaults_dicts ==
            SelectSeq(pipewire_dump,
                      LAMBDA d : /\ d.type = METADATA_TYPE
                                 /\ d.props["metadata.name"] = "default")
        sink_entries ==
            SelectSeq(pipewire_defaults_dicts[1].metadata,
                      LAMBDA d : d.key = SINK_KEY)
    IN  IF keyError THEN Raised("KeyError")
        ELSE IF Len(pipewire_defaults_dicts) # 1 THEN Raised("LookupError")
        ELSE IF Len(sink_entries) # 1 THEN Raised("LookupError")
        ELSE Returned(sink_entries[1].value.name)

----------------------------------------------------------------------------
\* SpecLinks: update_links called up to MaxCalls times; nothing else touches
\* the graph.

\* The variables of the other specifications, at rest
AuxIdle ==
    /\ handled = <<>>
    /\ inst = <<>>
    /\ creator = <<>>
    /\ taken = {}

NoHandlers == [s \in Signals |-> "default"]

InitLinks ==
    /\ serverUp \in BOOLEAN
    /\ nodes \in SUBSET AllNodes
    /\ links \in SUBSET EdgesAmong(nodes)
    /\ dump = <<>>
    /\ pc = "lib"
    /\ chan = 1
    /\ running = FALSE
    /\ handlers = NoHandlers
    /\ default_sink_name = ""
    /\ pending = FALSE
    /\ exit_status = "running"
    /\ requests = <<>>
    /\ results = <<>>
    /\ signals = 0
    /\ sigInWait = FALSE
    /\ sleeps = 0
    /\ calls = <<>>
    /\ found = Raised("unset")
    /\ AuxIdle

CallUpdateLinks(audio_sink_node, disconnect) ==
    /\ pc = "lib"
    /\ Len(calls) < MaxCalls
    /\ LET r == update_links(audio_sink_node, SNAPCAST_SINK_NODE, disconnect,
                             serverUp, nodes, links)
       IN  /\ links' = r.links
           /\ requests' = requests \o r.argvs
           /\ results' = results \o r.procs
           /\ calls' = Append(calls,
                  [source |-> audio_sink_node, disconnect |-> disconnect,
                   argvs |-> r.argvs, procs |-> r.procs, outcomes |-> r.outcomes,
                   raised |-> r.raised, before |-> links, after |-> r.links])
    /\ UNCHANGED <<serverUp, nodes, dump, pc, chan, running, handlers,
                   default_sink_name, pending, exit_status,
                   signals, sigInWait, sleeps, found, auxVars>>

NextLinks ==
    \E a \in Devices, d \in BOOLEAN : CallUpdateLinks(a, d)

SpecLinks == InitLinks /\ [][NextLinks]_vars

----------------------------------------------------------------------------
\* Claims about update_links (checked under SpecLinks)

SameArgs(c, d) == c.source = d.source /\ c.disconnect = d.disconnect

EdgesOf(source) == { ChannelEdge(source, CHANNELS[i]) : i \in 1..Len(CHANNELS) }

\* The benign error text of a direction, as the external interface names it
BenignText(disconnect) == IF disconnect THEN UNLINK_NOENT ELSE LINK_EXISTS

\* C1: update_links is idempotent in both directions: when a call completed
\* without error, the next call with the same arguments does not raise, ends
\* both the FL and the FR request on the benign already-connected /
\* already-disconnected path, and leaves the graph unchanged.
C1_Idempotent ==
    \A i \in 1..(Len(calls) - 1) :
        (SameArgs(calls[i], calls[i + 1]) /\ ~calls[i].raised)
            => /\ ~calls[i + 1].raised
               /\ calls[i + 1].outcomes = <<"already", "already">>
               /\ \A j \in 1..2 :
                      /\ calls[i + 1].procs[j].returncode # 0
                      /\ calls[i + 1].procs[j].stderr = BenignText(calls[i].disconnect)
               /\ calls[i + 1].after = calls[i + 1].before
               /\ calls[i + 1].before = calls[i].after

\* C1 witness: a disconnect that removed both edges, repeated with the same
\* arguments and ending on the benign path for both channels.
C1_Witness ==
    \E i \in 1..(Len(calls) - 1) :
        /\ SameArgs(calls[i], calls[i + 1])
        /\ ~calls[i].raised
        /\ calls[i].outcomes = <<"ok", "ok">>
        /\ calls[i].disconnect
        /\ calls[i + 1].outcomes = <<"already", "already">>

\* C4: a request that returns non-zero with an error text that is not the
\* benign message of the requested direction makes update_links raise, and
\* it is the last request of that call (no request for a later channel).
C4_NonBenignPropagates ==
    \A i \in 1..Len(calls) :
        \A j \in 1..Len(calls[i].procs) :
            (/\ calls[i].procs[j].returncode # 0
             /\ calls[i].procs[j].stderr # BenignText(calls[i].disconnect))
                => /\ calls[i].raised
                   /\ calls[i].outcomes[j] = "raise"
                   /\ Len(calls[i].argvs) = j

\* C4 witness: a connect whose FL request failed with a non-benign text and
\* that therefore issued that one request only.
C4_Witness ==
    \E i \in 1..Len(calls) :
        /\ ~calls[i].disconnect
        /\ calls[i].procs[1].returncode # 0
        /\ calls[i].procs[1].stderr = LINK_NOENT
        /\ calls[i].raised
        /\ Len(calls[i].argvs) = 1

\* C5: round trip: a successful connect followed by a successful disconnect
\* of the same pair leaves neither the FL nor the FR edge in the graph.
C5_RoundTrip ==
    \A i \in 1..(Len(calls) - 1) :
        (/\ calls[i].source = calls[i + 1].source
         /\ ~calls[i].disconnect /\ ~calls[i].raised
         /\ calls[i + 1].disconnect /\ ~calls[i + 1].raised)
            => EdgesOf(calls[i].source) \cap calls[i + 1].after = {}

\* C5 witness: a connect that created an edge, then a disconnect that
\* removed both.
C5_Witness ==
    \E i \in 1..(Len(calls) - 1) :
        /\ calls[i].source = calls[i + 1].source
        /\ ~calls[i].disconnect /\ ~calls[i].raised
        /\ "ok" \in {calls[i].outcomes[j] : j \in 1..2}
        /\ calls[i + 1].disconnect /\ ~calls[i + 1].raised
        /\ calls[i + 1].outcomes = <<"ok", "ok">>

\* The two requests the claim expects of a call
ExpectedArgvs(c) ==
    LET flag == IF c.disconnect THEN <<"-d">> ELSE <<>>
    IN  << <<"pw-link">> \o flag \o <<c.source \o ":monitor_FL", "Snapcast:playback_FL">>,
           <<"pw-link">> \o flag \o <<c.source \o ":monitor_FR", "Snapcast:playback_FR">> >>

\* C6 (as stated): every connect or disconnect call issues exactly two edge
\* requests, FL first and FR second, and no other.
C6_ExactlyTwo_AsStated ==
    \A i \in 1..Len(calls) : calls[i].argvs = ExpectedArgvs(calls[i])

\* C6 (amended): every call issues the FL request first and, unless that
\* request failed non-benignly, exactly one more request, for FR; a call
\* aborted by a non-benign FL failure issues the FL request only; no request
\* names any other port.
C6_TwoChannels ==
    \A i \in 1..Len(calls) :
        LET c == calls[i]
            flFatal == /\ c.procs[1].returncode # 0
                       /\ c.procs[1].stderr # BenignText(c.disconnect)
        IN  /\ Len(c.argvs) = Len(c.procs)
            /\ IF flFatal
                  THEN c.argvs = SubSeq(ExpectedArgvs(c), 1, 1)
                  ELSE c.argvs = ExpectedArgvs(c)

\* C6 witness: a connect and a disconnect that issued both requests, and a
\* call cut to the FL request by a non-benign failure
C6_Witness ==
    /\ \E i \in 1..Len(calls) : Len(calls[i].argvs) = 2 /\ calls[i].disconnect
    /\ \E i \in 1..Len(calls) : Len(calls[i].argvs) = 2 /\ ~calls[i].disconnect
    /\ \E i \in 1..Len(calls) : Len(calls[i].argvs) = 1 /\ calls[i].raised

----------------------------------------------------------------------------
\* SpecFind: find_default_audio_sink applied to every bounded graph dump

SinkNames == Devices

EntrySet ==
    { Entry(SINK_KEY, n) : n \in SinkNames } \cup { Entry("default.audio.source", "mic") }

RECURSIVE SeqsUpTo(_, _)
SeqsUpTo(S, n) ==
    IF n = 0 THEN { <<>> }
    ELSE LET shorter == SeqsUpTo(S, n - 1)
         IN  shorter \cup { Append(q, x) : q \in { r \in shorter : Len(r) = n - 1 }, x \in S }

ObjectSet ==
    { NodeObject("hdmi") }
        \cup { MetadataObject(p, m) :
                 p \in { Named("default"), Named("settings"), Unnamed },
                 m \in SeqsUpTo(EntrySet, MaxEntries) }

InitFind ==
    /\ serverUp = TRUE
    /\ nodes = AllNodes
    /\ links = {}
    /\ dump \in SeqsUpTo(ObjectSet, MaxObjects)
    /\ pc = "find"
    /\ chan = 1
    /\ running = FALSE
    /\ handlers = NoHandlers
    /\ default_sink_name = ""
    /\ pending = FALSE
    /\ exit_status = "running"
    /\ requests = <<>>
    /\ results = <<>>
    /\ signals = 0
    /\ sigInWait = FALSE
    /\ sleeps = 0
    /\ calls = <<>>
    /\ found = Raised("unset")
    /\ AuxIdle

CallFind ==
    /\ pc = "find"
    /\ found' = find_default_audio_sink(dump)
    /\ pc' = "found"
    /\ UNCHANGED <<serverUp, nodes, links, dump, chan, running, handlers,
                   default_sink_name, pending, exit_status, requests, results,
                   signals, sigInWait, sleeps, calls, auxVars>>

NextFind == CallFind

SpecFind == InitFind /\ [][NextFind]_vars

\* Counts the claim speaks of, taken from the dump alone
NamedDefault(d) ==
    /\ d.type = METADATA_TYPE
    /\ "metadata.name" \in DOMAIN d.props
    /\ d.props["metadata.name"] = "default"

DefaultObjects == SelectSeq(dump, NamedDefault)

SinkEntries(d) == SelectSeq(d.metadata, LAMBDA e : e.key = SINK_KEY)

\* C8: the lookup raises LookupError (never another error, never a value)
\* when the number of Metadata objects named "default" is not one or the
\* number of default.audio.sink entries of the unique one is not one, and
\* returns the entry's name when both counts are one; also when the dump
\* holds other objects, Metadata objects without metadata.name included.
C8_LookupAmbiguity ==
    pc = "found" =>
        IF Len(DefaultObjects) = 1 /\ Len(SinkEntries(DefaultObjects[1])) = 1
          THEN found = Returned(SinkEntries(DefaultObjects[1])[1].value.name)
          ELSE IsLookupError(found)

----------------------------------------------------------------------------
\* Spec: the lifecycle of _main, one process against the audio server

GoodDump(name) ==
    << NodeObject(name),
       MetadataObject(Named("settings"), <<>>),
       MetadataObject(Named("default"),
                      << Entry("default.audio.source", "mic"), Entry(SINK_KEY, name) >>) >>

NoDefaultsDump == << NodeObject("hdmi"), MetadataObject(Named("settings"), <<>>) >>

NoSinkDump ==
    << MetadataObject(Named("default"), << Entry("default.audio.source", "mic") >>) >>

DumpSamples == { GoodDump(n) : n \in Devices } \cup { NoDefaultsDump, NoSinkDump }

Init ==
    /\ serverUp \in BOOLEAN
    /\ nodes \in SUBSET AllNodes
    /\ links \in SUBSET EdgesAmong(nodes)
    /\ dump \in DumpSamples
    /\ pc = "query"
    /\ chan = 1
    /\ running = FALSE
    /\ handlers = NoHandlers
    /\ default_sink_name = ""
    /\ pending = FALSE
    /\ exit_status = "running"
    /\ requests = <<>>
    /\ results = <<>>
    /\ signals = 0
    /\ sigInWait = FALSE
    /\ sleeps = 0
    /\ calls = <<>>
    /\ found = Raised("unset")
    /\ AuxIdle

Alive == exit_status = "running"

\* The interpreter ends: an uncaught exception, a fatal signal, or the return
\* of _main.
Exit(status) ==
    /\ exit_status' = status
    /\ pc' = "exited"
    /\ running' = FALSE

Ended(returncode, stderr) == [returncode |-> returncode, stderr |-> stderr]

\* subprocess.run kills and reaps the child when an exception interrupts it
Killed == Ended(-9, "")

\* line 78: subprocess.check_output(["pw-dump"]) is started
SpawnQuery ==
    /\ Alive /\ pc = "query" /\ ~running
    /\ running' = TRUE
    /\ requests' = Append(requests, <<"pw-dump">>)
    /\ UNCHANGED <<serverVars, pc, chan, handlers, default_sink_name, pending,
                   exit_status, results, signals, sigInWait, sleeps, calls, found, auxVars>>

\* Mutant: a failed lookup falls back to a fixed device name and goes on
CompleteQueryFallback ==
    /\ Alive /\ pc = "query" /\ running
    /\ IF ~serverUp
         THEN /\ results' = Append(results, Ended(1, HOST_DOWN))
              /\ found' = Raised("CalledProcessError")
              /\ Exit("exit_1")
              /\ UNCHANGED <<default_sink_name, chan>>
         ELSE LET r == find_default_audio_sink(dump)
              IN  /\ results' = Append(results, Ended(0, ""))
                  /\ found' = r
                  /\ IF r.exc # "none"
                       THEN /\ default_sink_name' = "hdmi"
                            /\ pc' = "connect"
                            /\ chan' = 1
                            /\ running' = FALSE
                            /\ UNCHANGED exit_status
                       ELSE /\ default_sink_name' = r.value
                            /\ pc' = "connect"
                            /\ chan' = 1
                            /\ running' = FALSE
                            /\ UNCHANGED exit_status
    /\ UNCHANGED <<serverVars, handlers, pending, requests,
                   signals, sigInWait, sleeps, calls, auxVars>>

\* lines 78-95 and 100: pw-dump ends; a non-zero status raises
\* CalledProcessError, the lookup raises LookupError (or KeyError); either is
\* uncaught in _main.  Otherwise the name is bound and line 102 is next.
CompleteQuery ==
    /\ Alive /\ pc = "query" /\ running
    /\ IF ~serverUp
         THEN /\ results' = Append(results, Ended(1, HOST_DOWN))
              /\ found' = Raised("CalledProcessError")
              /\ Exit("exit_1")
              /\ UNCHANGED <<default_sink_name, chan>>
         ELSE LET r == find_default_audio_sink(dump)
              IN  /\ results' = Append(results, Ended(0, ""))
                  /\ found' = r
                  /\ IF r.exc # "none"
                       THEN /\ Exit("exit_1")
                            /\ UNCHANGED <<default_sink_name, chan>>
                       ELSE /\ default_sink_name' = r.value
                            /\ pc' = "connect"
                            /\ chan' = 1
                            /\ running' = FALSE
                            /\ UNCHANGED exit_status
    /\ UNCHANGED <<serverVars, handlers, pending, requests,
                   signals, sigInWait, sleeps, calls, auxVars>>

\* lines 42-46: the pw-link child of the current channel is started
SpawnLink ==
    /\ Alive /\ pc \in {"connect", "disconnect"} /\ ~running
    /\ running' = TRUE
    /\ requests' = Append(requests,
            LinkArgv(default_sink_name, SNAPCAST_SINK_NODE, pc = "disconnect",
                     CHANNELS[chan]))
    /\ UNCHANGED <<serverVars, pc, chan, handlers, default_sink_name, pending,
                   exit_status, results, signals, sigInWait, sleeps, calls, found, auxVars>>

\* Mutant: line 102 sits inside the try statement, so a failed connect runs
\* the finally block
CompleteLinkTryAroundConnect ==
    /\ Alive /\ pc \in {"connect", "disconnect"} /\ running
    /\ LET ended_proc == PwLink(requests[Len(requests)], serverUp, nodes, links)
           outcome == Handle(pc = "disconnect", ended_proc.returncode, ended_proc.stderr)
       IN  /\ links' = ended_proc.links
           /\ results' = Append(results, Ended(ended_proc.returncode, ended_proc.stderr))
           /\ IF outcome = "raise"
                THEN IF pc = "connect"
                       THEN /\ pc' = "disconnect"
                            /\ chan' = 1
                            /\ running' = FALSE
                            /\ UNCHANGED exit_status
                       ELSE Exit("exit_1") /\ UNCHANGED chan
              ELSE IF chan < Len(CHANNELS)
                THEN chan' = chan + 1 /\ running' = FALSE /\ UNCHANGED <<pc, exit_status>>
              ELSE /\ pc' = IF pc = "connect" THEN "init_signal_INT" ELSE "log_disconnect"
                   /\ chan' = 1
                   /\ running' = FALSE
                   /\ UNCHANGED exit_status
    /\ UNCHANGED <<serverUp, nodes, dump, handlers, default_sink_name, pending,
                   requests, signals, sigInWait, sleeps, calls, found, auxVars>>

\* Mutant: a failed second channel undoes the edge of the first
CompleteLinkRollback ==
    /\ Alive /\ pc \in {"connect", "disconnect"} /\ running
    /\ LET ended_proc == PwLink(requests[Len(requests)], serverUp, nodes, links)
           outcome == Handle(pc = "disconnect", ended_proc.returncode, ended_proc.stderr)
       IN  /\ links' = IF outcome = "raise" /\ chan = 2
                       THEN ended_proc.links \ {ChannelEdge(default_sink_name, CHANNELS[1])}
                       ELSE ended_proc.links
           /\ results' = Append(results, Ended(ended_proc.returncode, ended_proc.stderr))
           /\ IF outcome = "raise"
                THEN Exit("exit_1") /\ UNCHANGED chan
              ELSE IF chan < Len(CHANNELS)
                THEN chan' = chan + 1 /\ running' = FALSE /\ UNCHANGED <<pc, exit_status>>
              ELSE /\ pc' = IF pc = "connect" THEN "init_signal_INT" ELSE "log_disconnect"
                   /\ chan' = 1
                   /\ running' = FALSE
                   /\ UNCHANGED exit_status
    /\ UNCHANGED <<serverUp, nodes, dump, handlers, default_sink_name, pending,
                   requests, signals, sigInWait, sleeps, calls, found, auxVars>>

\* lines 47-61: the child ends and the loop body classifies it.  A raise in
\* the connect call (line 102) is outside the try statement; a raise in the
\* disconnect call (line 112) leaves the finally block.  After the last
\* channel the connect call goes on to line 104, the disconnect call to
\* line 113.
CompleteLink ==
    /\ Alive /\ pc \in {"connect", "disconnect"} /\ running
    /\ LET ended_proc == PwLink(requests[Len(requests)], serverUp, nodes, links)
           outcome == Handle(pc = "disconnect", ended_proc.returncode, ended_proc.stderr)
       IN  /\ links' = ended_proc.links
           /\ results' = Append(results, Ended(ended_proc.returncode, ended_proc.stderr))
           /\ IF outcome = "raise"
                THEN Exit("exit_1") /\ UNCHANGED chan
              ELSE IF chan < Len(CHANNELS)
                THEN chan' = chan + 1 /\ running' = FALSE /\ UNCHANGED <<pc, exit_status>>
              ELSE /\ pc' = IF pc = "connect" THEN "init_signal_INT" ELSE "log_disconnect"
                   /\ chan' = 1
                   /\ running' = FALSE
                   /\ UNCHANGED exit_status
    /\ UNCHANGED <<serverUp, nodes, dump, handlers, default_sink_name, pending,
                   requests, signals, sigInWait, sleeps, calls, found, auxVars>>

\* line 71: signal.signal(SIGINT, raise_shutdown_exception)
InstallSigint ==
    /\ Alive /\ pc = "init_signal_INT"
    /\ handlers' = [handlers EXCEPT !["SIGINT"] = "raise"]
    /\ pc' = "init_signal_TERM"
    /\ UNCHANGED <<serverVars, chan, running, default_sink_name, pending, exit_status,
                   requests, results, signals, sigInWait, sleeps, calls, found, auxVars>>

\* line 72: signal.signal(SIGTERM, raise_shutdown_exception)
InstallSigterm ==
    /\ Alive /\ pc = "init_signal_TERM"
    /\ handlers' = [handlers EXCEPT !["SIGTERM"] = "raise"]
    /\ pc' = "init_done"
    /\ UNCHANGED <<serverVars, chan, running, default_sink_name, pending, exit_status,
                   requests, results, signals, sigInWait, sleeps, calls, found, auxVars>>

\* lines 105-107: the try statement is entered and the sleep loop starts
EnterWait ==
    /\ Alive /\ pc = "init_done"
    /\ pc' = "wait"
    /\ UNCHANGED <<serverVars, chan, running, handlers, default_sink_name, pending,
                   exit_status, requests, results, signals, sigInWait, sleeps, calls,
                   found, auxVars>>

\* Mutant: every sleep expiry goes back to line 102 and links again
SleepExpiresRelink ==
    /\ Alive /\ pc = "wait"
    /\ sleeps < MaxSleeps
    /\ sleeps' = sleeps + 1
    /\ pc' = "connect"
    /\ chan' = 1
    /\ UNCHANGED <<serverVars, running, handlers, default_sink_name, pending,
                   exit_status, requests, results, signals, sigInWait, calls, found,
                   auxVars>>

\* lines 106-107: time.sleep(60) returns and the loop sleeps again
SleepExpires ==
    /\ Alive /\ pc = "wait"
    /\ sleeps < MaxSleeps
    /\ sleeps' = sleeps + 1
    /\ UNCHANGED <<serverVars, processVars, signals, sigInWait, calls, found, auxVars>>

\* lines 108-110: the except clause logs and falls into the finally block
CaughtShutdown ==
    /\ Alive /\ pc = "except"
    /\ pc' = "disconnect"
    /\ chan' = 1
    /\ UNCHANGED <<serverVars, running, handlers, default_sink_name, pending,
                   exit_status, requests, results, signals, sigInWait, sleeps, calls,
                   found, auxVars>>

\* line 113 and the end of the finally block: an exception that was
\* propagating is re-raised (uncaught), otherwise _main returns.
LogDisconnect ==
    /\ Alive /\ pc = "log_disconnect"
    /\ Exit(IF pending THEN "exit_1" ELSE "exit_0")
    /\ UNCHANGED <<serverVars, chan, handlers, default_sink_name, pending,
                   requests, results, signals, sigInWait, sleeps, calls, found, auxVars>>

\* A child that was in flight when an exception cut subprocess.run short
KillChild == IF running THEN Append(results, Killed) ELSE results

\* A signal is delivered to the process (lines 64-72 and the interpreter's
\* defaults).  Default SIGTERM ends the process; default SIGINT raises
\* KeyboardInterrupt, which nothing catches.  An installed handler raises
\* ShutdownException where the main thread is:
\*   in the sleep loop      the except clause of line 108 catches it
\*   in the except clause   it propagates, through the finally block
\*   in the finally block   it propagates out of _main at once
\*   before the try         it propagates out of _main at once
Deliver(sig) ==
    /\ Alive
    /\ signals < MaxSignals
    /\ signals' = signals + 1
    /\ IF handlers[sig] = "default"
         THEN /\ Exit(IF sig = "SIGINT" THEN "killed_SIGINT" ELSE "killed_SIGTERM")
              /\ results' = KillChild
              /\ UNCHANGED <<chan, pending, sigInWait>>
       ELSE IF pc = "wait"
         THEN /\ pc' = "except"
              /\ sigInWait' = TRUE
              /\ UNCHANGED <<chan, running, pending, exit_status, results>>
       ELSE IF pc = "except"
         THEN /\ pc' = "disconnect"
              /\ chan' = 1
              /\ pending' = TRUE
              /\ UNCHANGED <<running, exit_status, results, sigInWait>>
       ELSE /\ Exit("exit_1")
            /\ results' = KillChild
            /\ UNCHANGED <<chan, pending, sigInWait>>
    /\ UNCHANGED <<serverVars, handlers, default_sink_name, requests, sleeps, calls,
                   found, auxVars>>

\* ---- other actors on the audio server ----

\* The desktop selects another default sink, or the metadata changes
EnvSetDump(d) ==
    /\ Alive
    /\ d # dump
    /\ dump' = d
    /\ UNCHANGED <<serverUp, nodes, links, processVars, signals, sigInWait, sleeps,
                   calls, found, auxVars>>

\* Another client creates or removes an edge
EnvToggleLink(e) ==
    /\ Alive
    /\ e \in EdgesAmong(nodes)
    /\ links' = IF e \in links THEN links \ {e} ELSE links \cup {e}
    /\ UNCHANGED <<serverUp, nodes, dump, processVars, signals, sigInWait, sleeps,
                   calls, found, auxVars>>

\* A device appears or goes away; its edges go with it
EnvToggleNode(n) ==
    /\ Alive
    /\ nodes' = IF n \in nodes THEN nodes \ {n} ELSE nodes \cup {n}
    /\ links' = links \cap EdgesAmong(nodes')
    /\ UNCHANGED <<serverUp, dump, processVars, signals, sigInWait, sleeps,
                   calls, found, auxVars>>

\* The daemon stops or starts answering
EnvToggleServer ==
    /\ Alive
    /\ serverUp' = ~serverUp
    /\ UNCHANGED <<nodes, links, dump, processVars, signals, sigInWait, sleeps,
                   calls, found, auxVars>>

Next ==
    \/ SpawnQuery
    \/ CompleteQuery
    \/ SpawnLink
    \/ CompleteLink
    \/ InstallSigint
    \/ InstallSigterm
    \/ EnterWait
    \/ SleepExpires
    \/ CaughtShutdown
    \/ LogDisconnect
    \/ \E sig \in Signals : Deliver(sig)
    \/ \E d \in DumpSamples : EnvSetDump(d)
    \/ \E e \in AllEdges : EnvToggleLink(e)
    \/ \E n \in AllNodes : EnvToggleNode(n)
    \/ EnvToggleServer

Spec == Init /\ [][Next]_vars

----------------------------------------------------------------------------
\* Claims about the lifecycle (checked under Spec)

Kind(argv) ==
    IF argv[1] = "pw-dump" THEN "query"
    ELSE IF argv[2] = "-d" THEN "remove"
    ELSE "create"

Kinds == [i \in 1..Len(requests) |-> Kind(requests[i])]

IsPrefix(s, t) == Len(s) <= Len(t) /\ s = SubSeq(t, 1, Len(s))

CreateRequests == SelectSeq(requests, LAMBDA a : Kind(a) = "create")

RemoveRequests == SelectSeq(requests, LAMBDA a : Kind(a) = "remove")

\* A result the loop body takes as success for a remove request
RemovedOrAbsent(r) ==
    r.returncode = 0 \/ (r.returncode # 0 /\ r.stderr = UNLINK_NOENT)

\* The remove requests of a full disconnect sequence for the resolved device
TeardownOf(name) ==
    << <<"pw-link", "-d", name \o ":monitor_FL", "Snapcast:playback_FL">>,
       <<"pw-link", "-d", name \o ":monitor_FR", "Snapcast:playback_FR">> >>

\* C7: the topology query runs once and before any link command; the
\* connect call runs at most once and only after the query succeeded; the
\* disconnect call runs at most once and only after the connect call; no
\* create request follows a remove request; no remove request is issued
\* before a termination request has interrupted the wait.
C7_LifecycleOrder ==
    /\ IsPrefix(Kinds, <<"query", "create", "create", "remove", "remove">>)
    /\ Len(CreateRequests) > 0 => found.exc = "none" /\ results[1].returncode = 0
    /\ Len(RemoveRequests) > 0 => sigInWait
    /\ exit_status \in {"exit_0", "exit_1"} => Len(requests) >= 1

\* C7 witness: a run that went through query, connect, wait and disconnect
C7_Witness ==
    /\ pc = "exited"
    /\ exit_status = "exit_0"
    /\ Kinds = <<"query", "create", "create", "remove", "remove">>

\* C9: when the topology query fails (pw-dump fails, or the lookup raises),
\* the process exits non-zero having issued no create or remove request,
\* with no signal handler registered and without entering the wait phase.
C9_StartupFailure ==
    found.exc \notin {"unset", "none"}
        => /\ exit_status = "exit_1"
           /\ pc = "exited"
           /\ requests = << <<"pw-dump">> >>
           /\ \A sig \in Signals : handlers[sig] = "default"
           /\ ~sigInWait /\ sleeps = 0

\* C9 witness: one run ended by a lookup failure, the server answering
C9_Witness ==
    /\ found.exc = "LookupError"
    /\ pc = "exited"
    /\ serverUp

\* C2: when a termination signal was delivered in the wait phase, the
\* disconnect sequence runs once afterward, for the device name resolved at
\* start and the target Snapcast: by the time the process has exited, the FL
\* remove request was issued once, and the FR remove request once after it
\* unless the FL request failed non-benignly.
C2_ShutdownTeardown ==
    (pc = "exited" /\ sigInWait)
        => /\ Len(RemoveRequests) >= 1
           /\ IsPrefix(RemoveRequests, TeardownOf(default_sink_name))
           /\ (Len(RemoveRequests) = 1
                 => /\ Len(results) = Len(requests)
                    /\ ~RemovedOrAbsent(results[Len(results)]))

\* C3: release is attempted on every exit path after linking was attempted:
\* a run that issued a create request does not exit before update_links was
\* called with disconnect=True for the same pair, i.e. before the FL remove
\* request was issued.
C3_ReleaseOnEveryExit ==
    (pc = "exited" /\ Len(CreateRequests) > 0)
        => /\ Len(RemoveRequests) >= 1
           /\ RemoveRequests[1] = TeardownOf(default_sink_name)[1]

\* C10: the process exits with status 0 exactly when it was signalled in the
\* wait phase and the unlink that followed ended with every channel removed
\* or already disconnected; every other exit is non-zero.
UnlinkCompleted ==
    /\ RemoveRequests = TeardownOf(default_sink_name)
    /\ Len(results) = Len(requests)
    /\ \A i \in (Len(requests) - 1)..Len(requests) : RemovedOrAbsent(results[i])

C10_ExitStatus ==
    pc = "exited" => (exit_status = "exit_0" <=> (sigInWait /\ UnlinkCompleted))

----------------------------------------------------------------------------
\* C12 and C14 (checked under Spec)

\* A result the loop body does not raise on
NotFatal(disconnect, r) ==
    r.returncode = 0 \/ r.stderr = BenignText(disconnect)

\* The step in which the FR request of a call ends with a non-benign failure
\* after the FL request of the same call succeeded
FRFailsAfterFL ==
    /\ pc \in {"connect", "disconnect"} /\ running /\ chan = 2
    /\ signals' = signals
    /\ Len(results) = Len(requests) - 1
    /\ NotFatal(pc = "disconnect", results[Len(results)])
    /\ Len(results') = Len(requests)
    /\ ~NotFatal(pc = "disconnect", results'[Len(requests)])

\* C12: no rollback on partial failure: when the FL request of a call
\* succeeded and the FR request fails non-benignly, the call raises (the
\* process ends with status 1), the graph is left as it was, FL edge
\* included, and no further request (compensation or retry) is ever issued.
C12_NoRollback ==
    [][ /\ FRFailsAfterFL
            => /\ pc' = "exited" /\ exit_status' = "exit_1"
               /\ links' = links
               /\ requests' = requests
        /\ pc = "exited" => (pc' = "exited" /\ requests' = requests) ]_vars

\* C12 witness: a connect whose FL request created the edge and whose FR
\* request failed non-benignly; the process is gone, the FL edge is still
\* connected and the FR request was the last one.
C12_Witness ==
    /\ pc = "exited" /\ exit_status = "exit_1" /\ signals = 0
    /\ Len(requests) = 3 /\ Len(results) = 3
    /\ Kind(requests[3]) = "create"
    /\ results[2].returncode = 0
    /\ results[3].returncode # 0 /\ results[3].stderr # LINK_EXISTS
    /\ ChannelEdge(default_sink_name, "FL") \in links

\* C14: the wait phase is passive and released only by a termination
\* request: a step taken in the wait phase that delivers no signal (a sleep
\* expiry, or any change of the graph by another actor) leaves the process
\* in the wait phase and issues no request.
C14_PassiveWait ==
    [][ (pc = "wait" /\ signals' = signals)
            => /\ pc' = "wait"
               /\ requests' = requests
               /\ results' = results
               /\ exit_status' = exit_status ]_vars

\* C14 witness: the process still waits after the sleep expiries counted,
\* though its edges were removed and the default device is another one.
C14_Witness ==
    /\ pc = "wait" /\ signals = 0
    /\ sleeps = MaxSleeps
    /\ EdgesOf(default_sink_name) \cap links = {}
    /\ dump \in { GoodDump(n) : n \in Devices \ {default_sink_name} }

----------------------------------------------------------------------------
\* SpecHandle: the classification of lines 47-61 applied to every combination
\* of direction, exit status and error text

MaxHandled == 2

ReturnCodes == {0, 1, 2}

ErrorTexts ==
    { LINK_EXISTS, LINK_NOENT, UNLINK_NOENT, HOST_DOWN, "",
      "failed to link ports: File exists",
      "failed to unlink ports: File exists\n" }

InitHandle ==
    /\ serverUp = TRUE
    /\ nodes = AllNodes
    /\ links = {}
    /\ dump = <<>>
    /\ pc = "handle"
    /\ chan = 1
    /\ running = FALSE
    /\ handlers = NoHandlers
    /\ default_sink_name = ""
    /\ pending = FALSE
    /\ exit_status = "running"
    /\ requests = <<>>
    /\ results = <<>>
    /\ signals = 0
    /\ sigInWait = FALSE
    /\ sleeps = 0
    /\ calls = <<>>
    /\ found = Raised("unset")
    /\ AuxIdle

Classify(disconnect, returncode, stderr) ==
    /\ pc = "handle"
    /\ Len(handled) < MaxHandled
    /\ handled' = Append(handled,
            [disconnect |-> disconnect, returncode |-> returncode, stderr |-> stderr,
             outcome |-> Handle(disconnect, returncode, stderr)])
    /\ UNCHANGED <<serverVars, processVars, signals, sigInWait, sleeps, calls, found,
                   inst, creator, taken>>

NextHandle ==
    \E d \in BOOLEAN, rc \in ReturnCodes, e \in ErrorTexts : Classify(d, rc, e)

SpecHandle == InitHandle /\ [][NextHandle]_vars

\* C13: a non-zero pw-link result is taken as success only when the call is
\* a connect and stderr is exactly the "File exists" link text, or the call
\* is a disconnect and stderr is exactly the "No such file or directory"
\* unlink text; every other non-zero result is fatal, the unlink text on a
\* connect and the link text on a disconnect included.
C13_Classification ==
    \A i \in 1..Len(handled) :
        LET h == handled[i]
            benign ==
                \/ ~h.disconnect /\ h.stderr = "failed to link ports: File exists\n"
                \/ h.disconnect
                     /\ h.stderr = "failed to unlink ports: No such file or directory\n"
        IN  /\ h.returncode = 0 => h.outcome = "ok"
            /\ (h.returncode # 0 /\ benign) => h.outcome = "already"
            /\ (h.returncode # 0 /\ ~benign) => h.outcome = "raise"

\* C13 witness: the two crossed combinations were classified, both fatal
C13_Witness ==
    /\ \E i \in 1..Len(handled) :
          /\ ~handled[i].disconnect /\ handled[i].returncode # 0
          /\ handled[i].stderr = UNLINK_NOENT
          /\ handled[i].outcome = "raise"
    /\ \E i \in 1..Len(handled) :
          /\ handled[i].disconnect /\ handled[i].returncode # 0
          /\ handled[i].stderr = LINK_EXISTS
          /\ handled[i].outcome = "raise"

----------------------------------------------------------------------------
\* SpecLive: the lifecycle with the scheduling the interpreter gives: the
\* main thread keeps running and every subprocess it waits for returns.
\* Nothing obliges a signal, a sleep expiry or another actor to occur.

ProgramStep ==
    \/ SpawnQuery
    \/ CompleteQuery
    \/ SpawnLink
    \/ CompleteLink
    \/ InstallSigint
    \/ InstallSigterm
    \/ EnterWait
    \/ CaughtShutdown
    \/ LogDisconnect

SpecLive == Spec /\ WF_vars(ProgramStep)

\* A remove request that ended by itself with a non-benign failure (a child
\* killed by an interrupted subprocess.run did not end by itself)
RemoveFailed(i) ==
    /\ i <= Len(results)
    /\ Kind(requests[i]) = "remove"
    /\ results[i] # Killed
    /\ ~NotFatal(TRUE, results[i])

\* C15: shutdown liveness: once a signal was delivered in the wait phase the
\* process eventually terminates, and by then it has issued the FL remove
\* request and, unless that one failed non-benignly, the FR remove request.
C15_ShutdownLiveness ==
    /\ sigInWait ~> (pc = "exited")
    /\ [](  (pc = "exited" /\ sigInWait)
               => \E i \in 1..Len(requests) :
                     /\ requests[i] = TeardownOf(default_sink_name)[1]
                     /\ \/ RemoveFailed(i)
                        \/ /\ i < Len(requests)
                           /\ requests[i + 1] = TeardownOf(default_sink_name)[2] )

\* C16: teardown is not cut short by further signals: when the process has
\* exited after a signal in the wait phase, however many signals followed,
\* both remove requests were issued and ran to their end, unless a remove
\* request failed non-benignly by itself.
C16_TeardownNotCutShort ==
    (pc = "exited" /\ sigInWait /\ signals > 1)
        => \/ /\ RemoveRequests = TeardownOf(default_sink_name)
              /\ Len(results) = Len(requests)
              /\ \A i \in 1..Len(results) : results[i] # Killed
           \/ \E i \in 1..Len(requests) : RemoveFailed(i)

----------------------------------------------------------------------------
\* SpecMulti: several instances of the script against one audio server with
\* one default device.  Each instance runs the lifecycle of _main; inst[p]
\* holds what the scalar process variables hold in Spec.  The server is up,
\* no other actor touches the graph.

NumInstances == 2

Instances == 1..NumInstances

NoInstance == 0

SharedDevice == "hdmi"

InitMulti ==
    /\ serverUp = TRUE
    /\ nodes = AllNodes
    /\ links = {}
    /\ dump = GoodDump(SharedDevice)
    /\ pc = "multi"
    /\ chan = 1
    /\ running = FALSE
    /\ handlers = NoHandlers
    /\ default_sink_name = ""
    /\ pending = FALSE
    /\ exit_status = "running"
    /\ requests = <<>>
    /\ results = <<>>
    /\ signals = 0
    /\ sigInWait = FALSE
    /\ sleeps = 0
    /\ calls = <<>>
    /\ found = Raised("unset")
    /\ handled = <<>>
    /\ inst = [p \in Instances |->
                 [pc |-> "query", chan |-> 1, running |-> FALSE, handlers |-> NoHandlers,
                  default_sink_name |-> "", pending |-> FALSE, exit_status |-> "running",
                  argv |-> <<>>, signals |-> 0, sigInWait |-> FALSE]]
    /\ creator = [e \in EdgesOf(SharedDevice) |-> NoInstance]
    /\ taken = {}

multiFrame == <<serverUp, nodes, dump, processVars, signals, sigInWait, sleeps, calls,
                found, handled>>

MAlive(p) == inst[p].exit_status = "running"

MExit(r, status) ==
    [r EXCEPT !.exit_status = status, !.pc = "exited", !.running = FALSE]

\* line 78: pw-dump is started
MSpawnQuery(p) ==
    /\ MAlive(p) /\ inst[p].pc = "query" /\ ~inst[p].running
    /\ inst' = [inst EXCEPT ![p] = [@ EXCEPT !.running = TRUE, !.argv = <<"pw-dump">>]]
    /\ UNCHANGED <<multiFrame, links, creator, taken>>

\* lines 78-95 and 100
MCompleteQuery(p) ==
    /\ MAlive(p) /\ inst[p].pc = "query" /\ inst[p].running
    /\ LET r == IF serverUp THEN find_default_audio_sink(dump)
                ELSE Raised("CalledProcessError")
       IN  inst' = [inst EXCEPT ![p] =
                      IF r.exc # "none"
                        THEN MExit(@, "exit_1")
                        ELSE [@ EXCEPT !.default_sink_name = r.value, !.pc = "connect",
                                       !.chan = 1, !.running = FALSE]]
    /\ UNCHANGED <<multiFrame, links, creator, taken>>

\* lines 42-46: the pw-link child of the current channel is started
MSpawnLink(p) ==
    /\ MAlive(p) /\ inst[p].pc \in {"connect", "disconnect"} /\ ~inst[p].running
    /\ inst' = [inst EXCEPT ![p] =
                  [@ EXCEPT !.running = TRUE,
                            !.argv = LinkArgv(inst[p].default_sink_name, SNAPCAST_SINK_NODE,
                                              inst[p].pc = "disconnect",
                                              CHANNELS[inst[p].chan])]]
    /\ UNCHANGED <<multiFrame, links, creator, taken>>

\* lines 47-61: the child ends; the server has applied the request.  creator
\* and taken record whose request created each edge and which edges were
\* removed by the request of another instance than their creator.
MCompleteLink(p) ==
    /\ MAlive(p) /\ inst[p].pc \in {"connect", "disconnect"} /\ inst[p].running
    /\ LET me == inst[p]
           disconnect == me.pc = "disconnect"
           edge == <<me.argv[Len(me.argv) - 1], me.argv[Len(me.argv)]>>
           ended_proc == PwLink(me.argv, serverUp, nodes, links)
           outcome == Handle(disconnect, ended_proc.returncode, ended_proc.stderr)
       IN  /\ links' = ended_proc.links
           /\ creator' =
                IF ended_proc.returncode # 0 THEN creator
                ELSE [creator EXCEPT ![edge] = IF disconnect THEN NoInstance ELSE p]
           /\ taken' =
                IF ended_proc.returncode = 0 /\ disconnect /\ creator[edge] # p
                  THEN taken \cup
                         { [edge |-> edge, by |-> p, owner |-> creator[edge],
                            ownerWaiting |-> /\ creator[edge] \in Instances
                                             /\ inst[creator[edge]].pc = "wait"] }
                  ELSE taken
           /\ inst' = [inst EXCEPT ![p] =
                IF outcome = "raise" THEN MExit(@, "exit_1")
                ELSE IF me.chan < Len(CHANNELS)
                  THEN [@ EXCEPT !.chan = me.chan + 1, !.running = FALSE]
                ELSE [@ EXCEPT !.pc = IF disconnect THEN "log_disconnect"
                                      ELSE "init_signal_INT",
                               !.chan = 1, !.running = FALSE]]
    /\ UNCHANGED multiFrame

\* line 71
MInstallSigint(p) ==
    /\ MAlive(p) /\ inst[p].pc = "init_signal_INT"
    /\ inst' = [inst EXCEPT ![p] = [@ EXCEPT !.handlers["SIGINT"] = "raise",
                                             !.pc = "init_signal_TERM"]]
    /\ UNCHANGED <<multiFrame, links, creator, taken>>

\* line 72
MInstallSigterm(p) ==
    /\ MAlive(p) /\ inst[p].pc = "init_signal_TERM"
    /\ inst' = [inst EXCEPT ![p] = [@ EXCEPT !.handlers["SIGTERM"] = "raise",
                                             !.pc = "init_done"]]
    /\ UNCHANGED <<multiFrame, links, creator, taken>>

\* lines 105-107
MEnterWait(p) ==
    /\ MAlive(p) /\ inst[p].pc = "init_done"
    /\ inst' = [inst EXCEPT ![p] = [@ EXCEPT !.pc = "wait"]]
    /\ UNCHANGED <<multiFrame, links, creator, taken>>

\* lines 108-110
MCaughtShutdown(p) ==
    /\ MAlive(p) /\ inst[p].pc = "except"
    /\ inst' = [inst EXCEPT ![p] = [@ EXCEPT !.pc = "disconnect", !.chan = 1]]
    /\ UNCHANGED <<multiFrame, links, creator, taken>>

\* line 113 and the end of the finally block
MLogDisconnect(p) ==
    /\ MAlive(p) /\ inst[p].pc = "log_disconnect"
    /\ inst' = [inst EXCEPT ![p] =
                  MExit(@, IF inst[p].pending THEN "exit_1" ELSE "exit_0")]
    /\ UNCHANGED <<multiFrame, links, creator, taken>>

\* A signal is delivered to instance p (lines 64-72), as Deliver
MDeliver(p, sig) ==
    /\ MAlive(p)
    /\ inst[p].signals < MaxSignals
    /\ LET me == [inst[p] EXCEPT !.signals = @ + 1]
       IN  inst' = [inst EXCEPT ![p] =
                IF me.handlers[sig] = "default"
                  THEN MExit(me, IF sig = "SIGINT" THEN "killed_SIGINT"
                                 ELSE "killed_SIGTERM")
                ELSE IF me.pc = "wait"
                  THEN [me EXCEPT !.pc = "except", !.sigInWait = TRUE]
                ELSE IF me.pc = "except"
                  THEN [me EXCEPT !.pc = "disconnect", !.chan = 1, !.pending = TRUE]
                ELSE MExit(me, "exit_1")]
    /\ UNCHANGED <<multiFrame, links, creator, taken>>

NextMulti ==
    \E p \in Instances :
        \/ MSpawnQuery(p)
        \/ MCompleteQuery(p)
        \/ MSpawnLink(p)
        \/ MCompleteLink(p)
        \/ MInstallSigint(p)
        \/ MInstallSigterm(p)
        \/ MEnterWait(p)
        \/ MCaughtShutdown(p)
        \/ MLogDisconnect(p)
        \/ \E sig \in Signals : MDeliver(p, sig)

SpecMulti == InitMulti /\ [][NextMulti]_vars

\* C11: link ownership: every edge an instance's requests created is one of
\* the FL and FR edges of its device; an edge is only ever removed by the
\* instance whose create request created it, so an instance whose create
\* requests ended on "File exists" removes no edge of another instance, and
\* no instance in its wait phase loses its edges to another's shutdown.
C11_LinkOwnership ==
    /\ \A e \in DOMAIN creator :
          creator[e] \in Instances
              => e \in EdgesOf(inst[creator[e]].default_sink_name)
    /\ \A t \in taken : t.owner \notin Instances

====
